---- MODULE Spec2Model ----
(***************************************************************************)
(* Model of the TrueType text caches of src/openrct2/drawing/TTF.cpp: the  *)
(* surface cache and the get-width cache (two open-addressed tables that   *)
(* share ttf_surface_cache_hash), their disposal, ttf_toggle_hinting and   *)
(* the ttf_initialise / ttf_dispose life cycle.                            *)
(*                                                                         *)
(* A uint32_t is a pair <<hi, lo>> of 16-bit halves, so that the rotate,   *)
(* the exclusive-or and the wrapping subtraction of the source are         *)
(* computed at their real width.                                           *)
(***************************************************************************)
EXTENDS Integers, Sequences, FiniteSets, TLC

(***************************************************************************)
(* Bounds of the model.                                                    *)
(***************************************************************************)
\* Slots of the surface table (256 in the source, scaled down).
TTF_SURFACE_CACHE_SIZE == 2
\* Slots of the get-width table (1024 in the source, scaled down).
TTF_GETWIDTH_CACHE_SIZE == 2
\* Size classes of the current font set (declared outside TTF.cpp).
FONT_SIZE_COUNT == 2
\* gCurrentDrawCount is not advanced beyond this value.
MaxDrawCount == 128
\* Calls counted by the hit and miss counters of both tables together, in a
\* run that uses both tables.
MaxMixedCalls == 2
\* TTF_Init is not called again once the engine holds this many references.
MaxEngineRefs == 1

\* Calls of ttf_surface_cache_get_or_add counted by the hit and miss counters:
\* enough to fill the table and to probe the full table once more.
MaxSurfaceCalls == TTF_SURFACE_CACHE_SIZE + 1

\* Calls of ttf_getwidth_cache_get_or_add counted by the hit and miss counters.
MaxGetWidthCalls == TTF_GETWIDTH_CACHE_SIZE + 1

\* A dispose_all of a table of the given size is not run when it would drive
\* the table's live-entry counter below CountFloor(size).
CountFloor(size) == -size

\* The size classes the callers draw and measure text with.
DrawnSizes == {0, 1}

\* The values ttf_getwidth_cache_get_or_add can read from its local width.
Widths == {0, 1}

(***************************************************************************)
(* The staleness threshold of the probe loops.                             *)
(***************************************************************************)
StaleTicks == 64

\* Frames that may pass between two cache calls (gCurrentDrawCount advances
\* by one per frame; a step of d is d frames in which no text is drawn).
FrameSteps == {StaleTicks}

(***************************************************************************)
(* 32-bit unsigned arithmetic on <<hi, lo>> pairs.                         *)
(***************************************************************************)
Half == 2 ^ 16

ToU32(n) == <<(n \div Half) % Half, n % Half>>

RECURSIVE XorBits(_, _, _)
XorBits(a, b, n) ==
    IF n = 0 THEN 0
    ELSE (((a % 2) + (b % 2)) % 2) + 2 * XorBits(a \div 2, b \div 2, n - 1)

Xor32(x, y) == <<XorBits(x[1], y[1], 16), XorBits(x[2], y[2], 16)>>

\* x rotated right by s bits, 0 < s < 16
ror32(x, s) ==
    LET p == 2 ^ s
        q == 2 ^ (16 - s)
    IN  <<(x[1] \div p) + (x[2] % p) * q, (x[2] \div p) + (x[1] % p) * q>>

\* x - y modulo 2^32
SubU32(x, y) ==
    LET borrow == IF x[2] < y[2] THEN 1 ELSE 0
    IN  <<(x[1] - y[1] - borrow) % Half, (x[2] - y[2]) % Half>>

LtU32(x, y) == x[1] < y[1] \/ (x[1] = y[1] /\ x[2] < y[2])

\* x % n for a small n
ModU32(x, n) == ((x[1] % n) * (Half % n) + x[2]) % n

(***************************************************************************)
(* Key hash.                                                               *)
(***************************************************************************)
\* Variant: the loop stops after the first character.
HashTextFirstChar(hash, text) ==
    IF text = <<>> THEN hash
    ELSE Xor32(ror32(hash, 3), ToU32(Head(text) * 13))

RECURSIVE HashText(_, _)
HashText(hash, text) ==
    IF text = <<>> THEN hash
    ELSE HashText(Xor32(ror32(hash, 3), ToU32(Head(text) * 13)), Tail(text))

ttf_surface_cache_hash(font, text) ==
    HashText(Xor32(ToU32(font * 23), <<43690, 43690>>), text)

(***************************************************************************)
(* Inputs.                                                                 *)
(***************************************************************************)
\* The size classes of gCurrentTTFFontSet
FontSizes == 0 .. (FONT_SIZE_COUNT - 1)

\* The address TTF_OpenFont returns for size class i (a non-null pointer)
TTF_OpenFont(i) == 16 * (i + 1)

\* Texts drawn and measured: "" and "b" (7-bit characters)
Texts == {<<>>, <<98>>}

NullText == [ptr |-> 0, str |-> <<>>]

EmptySurfaceEntry == [surface |-> 0, font |-> 0, text |-> NullText, lastUseTick |-> 0]

EmptyGetWidthEntry == [width |-> 0, font |-> 0, text |-> NullText, lastUseTick |-> 0]

NoKey == <<0, <<>>, FALSE>>

Key(font, text) == <<font, text, TRUE>>

VARIABLES
    _ttfInitialised,
    engineRefs,
    fontSet,
    gCurrentDrawCount,
    _ttfSurfaceCache,
    _ttfSurfaceCacheCount,
    _ttfSurfaceCacheHitCount,
    _ttfSurfaceCacheMissCount,
    _ttfGetWidthCache,
    _ttfGetWidthCacheCount,
    _ttfGetWidthCacheHitCount,
    _ttfGetWidthCacheMissCount,
    heap,
    origin,
    last

vars == <<_ttfInitialised, engineRefs, fontSet, gCurrentDrawCount,
          _ttfSurfaceCache, _ttfSurfaceCacheCount, _ttfSurfaceCacheHitCount,
          _ttfSurfaceCacheMissCount, _ttfGetWidthCache, _ttfGetWidthCacheCount,
          _ttfGetWidthCacheHitCount, _ttfGetWidthCacheMissCount, heap, origin, last>>

surfaceVars == <<_ttfSurfaceCache, _ttfSurfaceCacheCount, _ttfSurfaceCacheHitCount,
                 _ttfSurfaceCacheMissCount>>

getWidthVars == <<_ttfGetWidthCache, _ttfGetWidthCacheCount, _ttfGetWidthCacheHitCount,
                  _ttfGetWidthCacheMissCount>>

lifeVars == <<_ttfInitialised, engineRefs, fontSet>>

(***************************************************************************)
(* The allocator: malloc / _strdup return the lowest free block of their   *)
(* pool, free returns it.  heap.doubleFree records a free of a block that  *)
(* is not allocated.                                                       *)
(***************************************************************************)
Alloc(pool) ==
    CHOOSE p \in 1 .. (Cardinality(pool) + 1) :
        p \notin pool /\ \A q \in 1 .. (p - 1) : q \in pool

InitHeap == [surfaces |-> {}, surfaceTexts |-> {}, getWidthTexts |-> {}, doubleFree |-> FALSE]

\* ttf_free_surface(surface)
ttf_free_surface(h, surface) ==
    IF surface \in h.surfaces
    THEN [h EXCEPT !.surfaces = @ \ {surface}]
    ELSE [h EXCEPT !.doubleFree = TRUE]

\* free(entry->text) of a surface-cache entry
FreeSurfaceText(h, ptr) ==
    IF ptr = 0 THEN h
    ELSE IF ptr \in h.surfaceTexts
    THEN [h EXCEPT !.surfaceTexts = @ \ {ptr}]
    ELSE [h EXCEPT !.doubleFree = TRUE]

\* free(entry->text) of a get-width-cache entry
FreeGetWidthText(h, ptr) ==
    IF ptr = 0 THEN h
    ELSE IF ptr \in h.getWidthTexts
    THEN [h EXCEPT !.getWidthTexts = @ \ {ptr}]
    ELSE [h EXCEPT !.doubleFree = TRUE]

(***************************************************************************)
(* Disposal of the surface cache.                                          *)
(***************************************************************************)
\* Variant: the blocks are freed and the entry keeps its pointers.
ttf_surface_cache_dispose_keeps_pointers(entry, h) ==
    IF entry.surface # 0
    THEN [entry |-> entry,
          heap  |-> FreeSurfaceText(ttf_free_surface(h, entry.surface), entry.text.ptr)]
    ELSE [entry |-> entry, heap |-> h]

ttf_surface_cache_dispose(entry, h) ==
    IF entry.surface # 0
    THEN [entry |-> [entry EXCEPT !.surface = 0, !.font = 0, !.text = NullText],
          heap  |-> FreeSurfaceText(ttf_free_surface(h, entry.surface), entry.text.ptr)]
    ELSE [entry |-> entry, heap |-> h]

\* The loop of ttf_surface_cache_dispose_all from slot i on; d is the one
\* result of the call on slot i.
RECURSIVE SurfaceDisposeFrom(_, _, _, _)
SurfaceDisposeFrom(cache, count, h, i) ==
    IF i >= TTF_SURFACE_CACHE_SIZE
    THEN [cache |-> cache, count |-> count, heap |-> h]
    ELSE LET d == CHOOSE d \in {ttf_surface_cache_dispose(cache[i], h)} : TRUE
         IN  SurfaceDisposeFrom([cache EXCEPT ![i] = d.entry], count - 1, d.heap, i + 1)

ttf_surface_cache_dispose_all(cache, count, h) == SurfaceDisposeFrom(cache, count, h, 0)

(***************************************************************************)
(* Disposal of the get-width cache.                                        *)
(***************************************************************************)
\* Variant: the text is freed and entry->text is not reset.
ttf_getwidth_cache_dispose_keeps_text(entry, h) ==
    IF entry.text.ptr # 0
    THEN [entry |-> [entry EXCEPT !.width = 0, !.font = 0],
          heap  |-> FreeGetWidthText(h, entry.text.ptr)]
    ELSE [entry |-> entry, heap |-> h]

\* Variant: entry->width is not reset.
ttf_getwidth_cache_dispose_keeps_width(entry, h) ==
    IF entry.text.ptr # 0
    THEN [entry |-> [entry EXCEPT !.font = 0, !.text = NullText],
          heap  |-> FreeGetWidthText(h, entry.text.ptr)]
    ELSE [entry |-> entry, heap |-> h]

ttf_getwidth_cache_dispose(entry, h) ==
    IF entry.text.ptr # 0
    THEN [entry |-> [entry EXCEPT !.width = 0, !.font = 0, !.text = NullText],
          heap  |-> FreeGetWidthText(h, entry.text.ptr)]
    ELSE [entry |-> entry, heap |-> h]

\* The loop of ttf_getwidth_cache_dispose_all from slot i on
RECURSIVE GetWidthDisposeFrom(_, _, _, _)
GetWidthDisposeFrom(cache, count, h, i) ==
    IF i >= TTF_GETWIDTH_CACHE_SIZE
    THEN [cache |-> cache, count |-> count, heap |-> h]
    ELSE LET d == CHOOSE d \in {ttf_getwidth_cache_dispose(cache[i], h)} : TRUE
         IN  GetWidthDisposeFrom([cache EXCEPT ![i] = d.entry], count - 1, d.heap, i + 1)

ttf_getwidth_cache_dispose_all(cache, count, h) == GetWidthDisposeFrom(cache, count, h, 0)

(***************************************************************************)
(* The probe loops.  A probe ends in a hit, or in a miss at the slot the   *)
(* source's index variable holds when the loop is left; examined is the    *)
(* number of slots the loop has read.                                      *)
(***************************************************************************)
\* entry->lastUseTick < gCurrentDrawCount - 64, in uint32_t arithmetic
IsStale(lastUseTick, drawCount) ==
    LtU32(ToU32(lastUseTick), SubU32(ToU32(drawCount), ToU32(StaleTicks)))

\* Variant: the texts are compared and the font handles are not.
IsMatchTextOnly(entry, font, text) == entry.text.str = text

\* entry->font == font && strcmp(entry->text, text) == 0
IsMatch(entry, font, text) == entry.font = font /\ entry.text.str = text

NextIndex(index, size) == IF index + 1 >= size THEN 0 ELSE index + 1

\* Variant: a probe that runs through every slot ends at the slot it
\* examined last.
RECURSIVE SurfaceProbeEndsAtLast(_, _, _, _, _, _)
SurfaceProbeEndsAtLast(cache, font, text, drawCount, index, i) ==
    IF i >= TTF_SURFACE_CACHE_SIZE
    THEN [hit |-> FALSE,
          index |-> (index + TTF_SURFACE_CACHE_SIZE - 1) % TTF_SURFACE_CACHE_SIZE,
          exhausted |-> TRUE, examined |-> i]
    ELSE IF cache[index].surface = 0
    THEN [hit |-> FALSE, index |-> index, exhausted |-> FALSE, examined |-> i + 1]
    ELSE IF IsMatch(cache[index], font, text)
    THEN [hit |-> TRUE, index |-> index, exhausted |-> FALSE, examined |-> i + 1]
    ELSE IF IsStale(cache[index].lastUseTick, drawCount)
    THEN [hit |-> FALSE, index |-> index, exhausted |-> FALSE, examined |-> i + 1]
    ELSE SurfaceProbeEndsAtLast(cache, font, text, drawCount,
                                NextIndex(index, TTF_SURFACE_CACHE_SIZE), i + 1)

RECURSIVE SurfaceProbe(_, _, _, _, _, _)
SurfaceProbe(cache, font, text, drawCount, index, i) ==
    IF i >= TTF_SURFACE_CACHE_SIZE
    THEN [hit |-> FALSE, index |-> index, exhausted |-> TRUE, examined |-> i]
    ELSE IF cache[index].surface = 0
    THEN [hit |-> FALSE, index |-> index, exhausted |-> FALSE, examined |-> i + 1]
    ELSE IF IsMatch(cache[index], font, text)
    THEN [hit |-> TRUE, index |-> index, exhausted |-> FALSE, examined |-> i + 1]
    ELSE IF IsStale(cache[index].lastUseTick, drawCount)
    THEN [hit |-> FALSE, index |-> index, exhausted |-> FALSE, examined |-> i + 1]
    ELSE SurfaceProbe(cache, font, text, drawCount,
                      NextIndex(index, TTF_SURFACE_CACHE_SIZE), i + 1)

\* Variant: the loop goes round the table twice before it gives up.
RECURSIVE GetWidthProbeTwoRounds(_, _, _, _, _, _)
GetWidthProbeTwoRounds(cache, font, text, drawCount, index, i) ==
    IF i >= 2 * TTF_GETWIDTH_CACHE_SIZE
    THEN [hit |-> FALSE, index |-> index, exhausted |-> TRUE, examined |-> i]
    ELSE IF cache[index].text.ptr = 0
    THEN [hit |-> FALSE, index |-> index, exhausted |-> FALSE, examined |-> i + 1]
    ELSE IF IsMatch(cache[index], font, text)
    THEN [hit |-> TRUE, index |-> index, exhausted |-> FALSE, examined |-> i + 1]
    ELSE IF IsStale(cache[index].lastUseTick, drawCount)
    THEN [hit |-> FALSE, index |-> index, exhausted |-> FALSE, examined |-> i + 1]
    ELSE GetWidthProbeTwoRounds(cache, font, text, drawCount,
                                NextIndex(index, TTF_GETWIDTH_CACHE_SIZE), i + 1)

RECURSIVE GetWidthProbe(_, _, _, _, _, _)
GetWidthProbe(cache, font, text, drawCount, index, i) ==
    IF i >= TTF_GETWIDTH_CACHE_SIZE
    THEN [hit |-> FALSE, index |-> index, exhausted |-> TRUE, examined |-> i]
    ELSE IF cache[index].text.ptr = 0
    THEN [hit |-> FALSE, index |-> index, exhausted |-> FALSE, examined |-> i + 1]
    ELSE IF IsMatch(cache[index], font, text)
    THEN [hit |-> TRUE, index |-> index, exhausted |-> FALSE, examined |-> i + 1]
    ELSE IF IsStale(cache[index].lastUseTick, drawCount)
    THEN [hit |-> FALSE, index |-> index, exhausted |-> FALSE, examined |-> i + 1]
    ELSE GetWidthProbe(cache, font, text, drawCount,
                       NextIndex(index, TTF_GETWIDTH_CACHE_SIZE), i + 1)

\* The hash of every key the callers use (computed once)
RECURSIVE HashesOf(_)
HashesOf(keys) ==
    IF keys = {} THEN <<>>
    ELSE LET key == CHOOSE k \in keys : TRUE
         IN  (key :> ttf_surface_cache_hash(key[1], key[2])) @@ HashesOf(keys \ {key})

HashTable == HashesOf({TTF_OpenFont(i) : i \in FontSizes} \X Texts)

\* int32_t index = hash % TTF_SURFACE_CACHE_SIZE
SurfaceHome(font, text) == ModU32(HashTable[<<font, text>>], TTF_SURFACE_CACHE_SIZE)

\* int32_t index = hash % TTF_GETWIDTH_CACHE_SIZE
GetWidthHome(font, text) == ModU32(HashTable[<<font, text>>], TTF_GETWIDTH_CACHE_SIZE)

(***************************************************************************)
(* The record of the latest call: which function ran, with which key, how  *)
(* it ended (kind), what it returned (result; for a disposal the number of  *)
(* blocks it freed), the slot it resolved to (index), how many calls it    *)
(* made to ttf_render / ttf_get_size (calls), whether its probe loop ran   *)
(* through every slot (exhausted), and how the call right before it ended  *)
(* when that was the same function with the same key (after).  A call that *)
(* returns before it reads or writes any of the state (ttf_toggle_hinting  *)
(* without TrueType fonts, ttf_initialise when already initialised or when *)
(* TTF_Init fails, ttf_dispose when not initialised) leaves the record as  *)
(* it is.  For ttf_toggle_hinting and ttf_dispose, after is how the call   *)
(* right before ended when that was one of these two.                      *)
(***************************************************************************)
Last(op, font, text, kind, result, index, calls, exhausted) ==
    [op |-> op, font |-> font, text |-> text, kind |-> kind, result |-> result,
     index |-> index, calls |-> calls, exhausted |-> exhausted,
     after |-> IF last.op = op /\ last.font = font /\ last.text = text /\ font # 0
               THEN last.kind ELSE "none"]

DisposalOps == {"toggle", "dispose"}

Call(op, kind, freed) ==
    [Last(op, 0, <<>>, kind, freed, 0, 0, FALSE)
        EXCEPT !.after = IF op \in DisposalOps /\ last.op \in DisposalOps
                         THEN last.kind ELSE "none"]

\* Blocks allocated in heap h
Blocks(h) == Cardinality(h.surfaces) + Cardinality(h.surfaceTexts) + Cardinality(h.getWidthTexts)

\* origin[t][i]: the key that was passed to ttf_render / ttf_get_size to
\* produce the value slot i of table t holds; NoKey for an empty slot.
OriginAfter(o, surfaceCache, getWidthCache) ==
    [surface  |-> [i \in DOMAIN surfaceCache |->
                     IF surfaceCache[i].surface = 0 THEN NoKey ELSE o.surface[i]],
     getWidth |-> [i \in DOMAIN getWidthCache |->
                     IF getWidthCache[i].text.ptr = 0 THEN NoKey ELSE o.getWidth[i]]]

\* The file-scope state of TTF.cpp before any call
InitTables ==
    /\ _ttfInitialised = FALSE
    /\ engineRefs = 0
    /\ fontSet = [i \in FontSizes |-> 0]
    /\ gCurrentDrawCount = 0
    /\ _ttfSurfaceCache = [i \in 0 .. (TTF_SURFACE_CACHE_SIZE - 1) |-> EmptySurfaceEntry]
    /\ _ttfSurfaceCacheCount = 0
    /\ _ttfSurfaceCacheHitCount = 0
    /\ _ttfSurfaceCacheMissCount = 0
    /\ _ttfGetWidthCache = [i \in 0 .. (TTF_GETWIDTH_CACHE_SIZE - 1) |-> EmptyGetWidthEntry]
    /\ _ttfGetWidthCacheCount = 0
    /\ _ttfGetWidthCacheHitCount = 0
    /\ _ttfGetWidthCacheMissCount = 0
    /\ heap = InitHeap
    /\ origin = [surface  |-> [i \in 0 .. (TTF_SURFACE_CACHE_SIZE - 1) |-> NoKey],
                 getWidth |-> [i \in 0 .. (TTF_GETWIDTH_CACHE_SIZE - 1) |-> NoKey]]

Init ==
    /\ InitTables
    /\ last = [op |-> "start", font |-> 0, text |-> <<>>, kind |-> "none", result |-> 0,
               index |-> 0, calls |-> 0, exhausted |-> FALSE, after |-> "none"]

(***************************************************************************)
(* ttf_toggle_hinting.  useTrueType is LocalisationService_UseTrueTypeFont *)
(* (); the hinting flag TTF_SetFontHinting stores in each font selects the *)
(* pixel format ttf_render produces and is not part of the cache state.    *)
(***************************************************************************)
ToggleDisposes(useTrueType, count) == useTrueType /\ count # 0

ToggleHinting(useTrueType, cache, count, h) ==
    IF ToggleDisposes(useTrueType, count)
    THEN ttf_surface_cache_dispose_all(cache, count, h)
    ELSE [cache |-> cache, count |-> count, heap |-> h]

\* Variant: the toggle disposes the get-width cache as well.
ToggleGetWidthCacheDisposes(cache, count, h) == ttf_getwidth_cache_dispose_all(cache, count, h)

\* What ttf_toggle_hinting does to the get-width cache: no statement of it
\* names _ttfGetWidthCache or _ttfGetWidthCacheCount.
ToggleGetWidthCache(cache, count, h) == [cache |-> cache, count |-> count, heap |-> h]

ttf_toggle_hinting(useTrueType) ==
    /\ _ttfInitialised
    /\ IF ~useTrueType
       THEN UNCHANGED vars
       ELSE /\ ToggleDisposes(useTrueType, _ttfSurfaceCacheCount)
                  => _ttfSurfaceCacheCount - TTF_SURFACE_CACHE_SIZE
                         >= CountFloor(TTF_SURFACE_CACHE_SIZE)
            /\ LET t == ToggleHinting(useTrueType, _ttfSurfaceCache,
                                      _ttfSurfaceCacheCount, heap)
                   w == ToggleGetWidthCache(_ttfGetWidthCache, _ttfGetWidthCacheCount,
                                            t.heap)
               IN  /\ _ttfSurfaceCache' = t.cache
                   /\ _ttfSurfaceCacheCount' = t.count
                   /\ _ttfGetWidthCache' = w.cache
                   /\ _ttfGetWidthCacheCount' = w.count
                   /\ heap' = w.heap
                   /\ origin' = OriginAfter(origin, t.cache, w.cache)
                   /\ last' = Call("toggle",
                                   IF _ttfSurfaceCacheCount # 0 THEN "disposed" ELSE "kept",
                                   Blocks(heap) - Blocks(w.heap))
            /\ UNCHANGED <<lifeVars, gCurrentDrawCount, _ttfSurfaceCacheHitCount,
                           _ttfSurfaceCacheMissCount, _ttfGetWidthCacheHitCount,
                           _ttfGetWidthCacheMissCount>>

(***************************************************************************)
(* ttf_initialise.  outcome says how far the call gets: TTF_Init fails     *)
(* ("engine"), platform_get_font_path fails for size class at ("path"),    *)
(* ttf_open_font fails for size class at ("open"), or all succeed ("ok").  *)
(***************************************************************************)
InitOutcomes ==
    {[kind |-> "ok", at |-> 0], [kind |-> "engine", at |-> 0]}
        \cup {[kind |-> k, at |-> i] : k \in {"path", "open"}, i \in FontSizes}

\* The font set after the loop of ttf_initialise
OpenedFonts(fonts, outcome) ==
    [i \in FontSizes |->
        IF outcome.kind = "ok" \/ i < outcome.at THEN TTF_OpenFont(i)
        ELSE IF outcome.kind = "open" /\ i = outcome.at THEN 0
        ELSE fonts[i]]

\* What a call of ttf_initialise reads of its environment: nothing when the
\* subsystem is initialised already, and the hinting setting only when it
\* reaches ttf_toggle_hinting.
InitOutcomesRead == IF _ttfInitialised THEN {[kind |-> "ok", at |-> 0]} ELSE InitOutcomes

HintingRead(outcome) == IF ~_ttfInitialised /\ outcome.kind = "ok" THEN BOOLEAN ELSE {FALSE}

ttf_initialise(outcome, useTrueType) ==
    IF _ttfInitialised \/ outcome.kind = "engine"
    THEN UNCHANGED vars
    ELSE /\ engineRefs < MaxEngineRefs
         /\ engineRefs' = engineRefs + 1
         /\ fontSet' = OpenedFonts(fontSet, outcome)
         /\ IF outcome.kind = "ok"
            THEN /\ ToggleDisposes(useTrueType, _ttfSurfaceCacheCount)
                       => _ttfSurfaceCacheCount - TTF_SURFACE_CACHE_SIZE
                              >= CountFloor(TTF_SURFACE_CACHE_SIZE)
                 /\ LET t == ToggleHinting(useTrueType, _ttfSurfaceCache,
                                           _ttfSurfaceCacheCount, heap)
                        w == ToggleGetWidthCache(_ttfGetWidthCache,
                                                 _ttfGetWidthCacheCount, t.heap)
                    IN  /\ _ttfSurfaceCache' = t.cache
                        /\ _ttfSurfaceCacheCount' = t.count
                        /\ _ttfGetWidthCache' = w.cache
                        /\ _ttfGetWidthCacheCount' = w.count
                        /\ heap' = w.heap
                        /\ origin' = OriginAfter(origin, t.cache, w.cache)
                 /\ _ttfInitialised' = TRUE
                 /\ last' = Call("initialise", "true", 0)
            ELSE /\ UNCHANGED <<_ttfInitialised, _ttfSurfaceCache, _ttfSurfaceCacheCount,
                                _ttfGetWidthCache, _ttfGetWidthCacheCount, heap, origin>>
                 /\ last' = Call("initialise", "false", 0)
         /\ UNCHANGED <<gCurrentDrawCount, _ttfSurfaceCacheHitCount,
                        _ttfSurfaceCacheMissCount, _ttfGetWidthCacheHitCount,
                        _ttfGetWidthCacheMissCount>>

(***************************************************************************)
(* ttf_dispose.  DisposeSteps is the state after each statement of an      *)
(* initialised ttf_dispose: the two dispose_all calls, the loop that       *)
(* closes the fonts, TTF_Quit.                                             *)
(***************************************************************************)
DisposeStep(s, w, fonts, refs, h) ==
    [surface |-> s.cache, surfaceCount |-> s.count, getWidth |-> w.cache,
     getWidthCount |-> w.count, fonts |-> fonts, refs |-> refs, heap |-> h]

ClosedFonts == [i \in FontSizes |-> 0]

\* Variant: the fonts are closed and the engine is shut down before the
\* caches are disposed.
DisposeStepsFontsFirst(surfaceCache, surfaceCount, getWidthCache, getWidthCount, fonts, refs, h) ==
    LET s0 == [cache |-> surfaceCache, count |-> surfaceCount]
        w0 == [cache |-> getWidthCache, count |-> getWidthCount]
        s  == ttf_surface_cache_dispose_all(surfaceCache, surfaceCount, h)
        w  == ttf_getwidth_cache_dispose_all(getWidthCache, getWidthCount, s.heap)
    IN  <<DisposeStep(s0, w0, ClosedFonts, refs, h),
          DisposeStep(s0, w0, ClosedFonts, refs - 1, h),
          DisposeStep(s, w0, ClosedFonts, refs - 1, s.heap),
          DisposeStep(s, w, ClosedFonts, refs - 1, w.heap)>>

DisposeSteps(surfaceCache, surfaceCount, getWidthCache, getWidthCount, fonts, refs, h) ==
    LET w0 == [cache |-> getWidthCache, count |-> getWidthCount]
        s  == ttf_surface_cache_dispose_all(surfaceCache, surfaceCount, h)
        w  == ttf_getwidth_cache_dispose_all(getWidthCache, getWidthCount, s.heap)
    IN  <<DisposeStep(s, w0, fonts, refs, s.heap),
          DisposeStep(s, w, fonts, refs, w.heap),
          DisposeStep(s, w, ClosedFonts, refs, w.heap),
          DisposeStep(s, w, ClosedFonts, refs - 1, w.heap)>>

ttf_dispose ==
    IF ~_ttfInitialised
    THEN UNCHANGED vars
    ELSE /\ _ttfSurfaceCacheCount - TTF_SURFACE_CACHE_SIZE
                >= CountFloor(TTF_SURFACE_CACHE_SIZE)
         /\ _ttfGetWidthCacheCount - TTF_GETWIDTH_CACHE_SIZE
                >= CountFloor(TTF_GETWIDTH_CACHE_SIZE)
         /\ \E steps \in {DisposeSteps(_ttfSurfaceCache, _ttfSurfaceCacheCount,
                                        _ttfGetWidthCache, _ttfGetWidthCacheCount,
                                        fontSet, engineRefs, heap)} :
                LET end == steps[Len(steps)]
                IN  /\ _ttfSurfaceCache' = end.surface
                    /\ _ttfSurfaceCacheCount' = end.surfaceCount
                    /\ _ttfGetWidthCache' = end.getWidth
                    /\ _ttfGetWidthCacheCount' = end.getWidthCount
                    /\ heap' = end.heap
                    /\ origin' = OriginAfter(origin, end.surface, end.getWidth)
                    /\ fontSet' = end.fonts
                    /\ engineRefs' = end.refs
         /\ _ttfInitialised' = FALSE
         /\ last' = Call("dispose", "disposed", Blocks(heap) - Blocks(heap'))
         /\ UNCHANGED <<gCurrentDrawCount, _ttfSurfaceCacheHitCount, _ttfSurfaceCacheMissCount,
                        _ttfGetWidthCacheHitCount, _ttfGetWidthCacheMissCount>>

\* Variant: a hit brings every occupied entry of the table to the current
\* tick.
TouchEveryEntry(cache, index, drawCount) ==
    [i \in DOMAIN cache |->
        IF cache[i].text.ptr # 0 THEN [cache[i] EXCEPT !.lastUseTick = drawCount]
        ELSE cache[i]]

\* entry->lastUseTick = gCurrentDrawCount on a hit
TouchEntry(cache, index, drawCount) == [cache EXCEPT ![index].lastUseTick = drawCount]

\* Variant: the font handle is not stored.
NewSurfaceEntryWithoutFont(surface, font, copy, text, drawCount) ==
    [surface |-> surface, font |-> 0, text |-> [ptr |-> copy, str |-> text],
     lastUseTick |-> drawCount]

\* The entry a miss of the surface cache stores
NewSurfaceEntry(surface, font, copy, text, drawCount) ==
    [surface |-> surface, font |-> font, text |-> [ptr |-> copy, str |-> text],
     lastUseTick |-> drawCount]

\* Variant: the entry is stored without the current tick.
NewGetWidthEntryWithoutTick(width, font, copy, text, drawCount) ==
    [width |-> width, font |-> font, text |-> [ptr |-> copy, str |-> text],
     lastUseTick |-> 0]

\* The entry a miss of the get-width cache stores
NewGetWidthEntry(width, font, copy, text, drawCount) ==
    [width |-> width, font |-> font, text |-> [ptr |-> copy, str |-> text],
     lastUseTick |-> drawCount]

\* Variant: the text is rendered before the table is searched.
SurfaceRenderCallsAlways(hit) == 1

\* Calls of ttf_render one call of ttf_surface_cache_get_or_add makes
SurfaceRenderCalls(hit) == IF hit THEN 0 ELSE 1

\* Calls of ttf_get_size one call of ttf_getwidth_cache_get_or_add makes
GetWidthMeasureCalls(hit) == IF hit THEN 0 ELSE 1

(***************************************************************************)
(* The call budget: each table takes its own number of counted calls, and  *)
(* a run that has used both tables takes MaxMixedCalls in all.             *)
(***************************************************************************)
SurfaceCalls == _ttfSurfaceCacheHitCount + _ttfSurfaceCacheMissCount

GetWidthCalls == _ttfGetWidthCacheHitCount + _ttfGetWidthCacheMissCount

SurfaceCallAllowed ==
    /\ SurfaceCalls < MaxSurfaceCalls
    /\ GetWidthCalls = 0 \/ SurfaceCalls + GetWidthCalls < MaxMixedCalls

GetWidthCallAllowed ==
    /\ GetWidthCalls < MaxGetWidthCalls
    /\ SurfaceCalls = 0 \/ SurfaceCalls + GetWidthCalls < MaxMixedCalls

(***************************************************************************)
(* ttf_surface_cache_get_or_add(font, text).  rendered says whether        *)
(* ttf_render returns a surface.  The callers draw with the open font of a *)
(* size class of the current font set.                                     *)
(***************************************************************************)
ttf_surface_cache_get_or_add(size, text, rendered) ==
    /\ _ttfInitialised
    /\ fontSet[size] # 0
    /\ SurfaceCallAllowed
    /\ \E font \in {fontSet[size]} :
       \E probe \in {SurfaceProbe(_ttfSurfaceCache, font, text, gCurrentDrawCount,
                                  SurfaceHome(font, text), 0)} :
       LET index == probe.index
       IN  IF probe.hit
           THEN /\ _ttfSurfaceCacheHitCount' = _ttfSurfaceCacheHitCount + 1
                /\ _ttfSurfaceCache' = TouchEntry(_ttfSurfaceCache, index, gCurrentDrawCount)
                /\ last' = Last("surface", font, text, "hit",
                                _ttfSurfaceCache[index].surface, index,
                                SurfaceRenderCalls(TRUE), FALSE)
                /\ UNCHANGED <<_ttfSurfaceCacheCount, _ttfSurfaceCacheMissCount, heap, origin>>
           ELSE \E d \in {ttf_surface_cache_dispose(_ttfSurfaceCache[index], heap)} :
                    IF ~rendered
                    THEN /\ _ttfSurfaceCache' = [_ttfSurfaceCache EXCEPT ![index] = d.entry]
                         /\ heap' = d.heap
                         /\ origin' = [origin EXCEPT !.surface[index] = NoKey]
                         /\ last' = Last("surface", font, text, "fail", 0, index,
                                         SurfaceRenderCalls(FALSE), probe.exhausted)
                         /\ UNCHANGED <<_ttfSurfaceCacheCount, _ttfSurfaceCacheHitCount,
                                        _ttfSurfaceCacheMissCount>>
                    ELSE \E surface \in {Alloc(d.heap.surfaces)},
                            copy \in {Alloc(d.heap.surfaceTexts)} :
                             /\ _ttfSurfaceCacheMissCount' = _ttfSurfaceCacheMissCount + 1
                             /\ _ttfSurfaceCacheCount' = _ttfSurfaceCacheCount + 1
                             /\ _ttfSurfaceCache' =
                                    [_ttfSurfaceCache EXCEPT ![index] =
                                        NewSurfaceEntry(surface, font, copy, text,
                                                        gCurrentDrawCount)]
                             /\ heap' = [d.heap EXCEPT !.surfaces = @ \cup {surface},
                                                       !.surfaceTexts = @ \cup {copy}]
                             /\ origin' = [origin EXCEPT !.surface[index] = Key(font, text)]
                             /\ last' = Last("surface", font, text, "miss", surface, index,
                                             SurfaceRenderCalls(FALSE), probe.exhausted)
                             /\ UNCHANGED _ttfSurfaceCacheHitCount
    /\ UNCHANGED <<lifeVars, gCurrentDrawCount, getWidthVars>>

(***************************************************************************)
(* ttf_getwidth_cache_get_or_add(font, text).  width is the value the call *)
(* reads from its local after ttf_get_size: the measured width, or, when   *)
(* the measurement fails and leaves the local unwritten, any value.        *)
(***************************************************************************)
ttf_getwidth_cache_get_or_add(size, text, width) ==
    /\ _ttfInitialised
    /\ fontSet[size] # 0
    /\ GetWidthCallAllowed
    /\ \E font \in {fontSet[size]} :
       \E probe \in {GetWidthProbe(_ttfGetWidthCache, font, text, gCurrentDrawCount,
                                   GetWidthHome(font, text), 0)} :
       LET index == probe.index
       IN  IF probe.hit
           THEN /\ _ttfGetWidthCacheHitCount' = _ttfGetWidthCacheHitCount + 1
                /\ _ttfGetWidthCache' = TouchEntry(_ttfGetWidthCache, index, gCurrentDrawCount)
                /\ last' = Last("getwidth", font, text, "hit",
                                _ttfGetWidthCache[index].width, index,
                                GetWidthMeasureCalls(TRUE), FALSE)
                /\ UNCHANGED <<_ttfGetWidthCacheCount, _ttfGetWidthCacheMissCount, heap, origin>>
           ELSE \E d \in {ttf_getwidth_cache_dispose(_ttfGetWidthCache[index], heap)} :
                \E copy \in {Alloc(d.heap.getWidthTexts)} :
                    /\ _ttfGetWidthCacheMissCount' = _ttfGetWidthCacheMissCount + 1
                    /\ _ttfGetWidthCacheCount' = _ttfGetWidthCacheCount + 1
                    /\ _ttfGetWidthCache' =
                           [_ttfGetWidthCache EXCEPT ![index] =
                               NewGetWidthEntry(width, font, copy, text,
                                                gCurrentDrawCount)]
                    /\ heap' = [d.heap EXCEPT !.getWidthTexts = @ \cup {copy}]
                    /\ origin' = [origin EXCEPT !.getWidth[index] = Key(font, text)]
                    /\ last' = Last("getwidth", font, text, "miss", width, index,
                                    GetWidthMeasureCalls(FALSE), probe.exhausted)
                    /\ UNCHANGED _ttfGetWidthCacheHitCount
    /\ UNCHANGED <<lifeVars, gCurrentDrawCount, surfaceVars>>

(***************************************************************************)
(* The drawing code advances gCurrentDrawCount once per frame.             *)
(***************************************************************************)
AdvanceDrawCount(frames) ==
    /\ gCurrentDrawCount + frames <= MaxDrawCount
    /\ gCurrentDrawCount' = gCurrentDrawCount + frames
    /\ last' = Call("frame", "none", 0)
    /\ UNCHANGED <<lifeVars, surfaceVars, getWidthVars, heap, origin>>

Next ==
    \/ \E outcome \in InitOutcomesRead :
           \E useTrueType \in HintingRead(outcome) : ttf_initialise(outcome, useTrueType)
    \/ ttf_dispose
    \/ \E useTrueType \in BOOLEAN : ttf_toggle_hinting(useTrueType)
    \/ \E size \in DrawnSizes, text \in Texts, rendered \in BOOLEAN :
           ttf_surface_cache_get_or_add(size, text, rendered)
    \/ \E size \in DrawnSizes, text \in Texts, width \in Widths :
           ttf_getwidth_cache_get_or_add(size, text, width)
    \/ \E frames \in FrameSteps : AdvanceDrawCount(frames)

Spec == Init /\ [][Next]_vars

(***************************************************************************)
(* ttf_surface_cache_hash on its own: the font handles and the texts it is *)
(* applied to.  A text is the sequence of the values of *ch the loop       *)
(* reads: utf8 is char, so a byte above 0x7F is read as a negative value   *)
(* where char is signed and as a value above 127 where it is unsigned.     *)
(***************************************************************************)
\* Longest text the hash is applied to
MaxHashLen == 3

\* Font handles: the fonts of the font set and an address whose product
\* with 23 does not fit 16 bits
HashFonts == {TTF_OpenFont(i) : i \in FontSizes} \cup {70000001}

HashChars == {-128, -1, 1, 98, 99, 255}

HashTexts == UNION {[1 .. n -> HashChars] : n \in 0 .. MaxHashLen}

HashRecord(font, text) ==
    [op |-> "hash", font |-> font, text |-> text, kind |-> "none",
     result |-> ttf_surface_cache_hash(font, text),
     index |-> 0, calls |-> 0, exhausted |-> FALSE, after |-> "none"]

InitHash ==
    /\ InitTables
    /\ \E font \in HashFonts : last = HashRecord(font, <<>>)

\* ttf_surface_cache_hash(font, text) for the text one character longer
HashLonger(ch) ==
    /\ last.op = "hash"
    /\ Len(last.text) < MaxHashLen
    /\ last' = HashRecord(last.font, Append(last.text, ch))
    /\ UNCHANGED <<lifeVars, gCurrentDrawCount, surfaceVars, getWidthVars, heap, origin>>

\* ttf_surface_cache_hash(font, text) once more with the same arguments
HashAgain ==
    /\ last.op = "hash"
    /\ last' = HashRecord(last.font, last.text)
    /\ UNCHANGED <<lifeVars, gCurrentDrawCount, surfaceVars, getWidthVars, heap, origin>>

NextHash ==
    \/ \E ch \in HashChars : HashLonger(ch)
    \/ HashAgain

SpecHash == InitHash /\ [][NextHash]_vars

(***************************************************************************)
(* Vocabulary of the properties.                                           *)
(***************************************************************************)
SurfaceSlots == 0 .. (TTF_SURFACE_CACHE_SIZE - 1)

GetWidthSlots == 0 .. (TTF_GETWIDTH_CACHE_SIZE - 1)

SurfaceOccupied(i) == _ttfSurfaceCache[i].surface # 0

GetWidthOccupied(i) == _ttfGetWidthCache[i].text.ptr # 0

SurfaceCacheEmpty == \A i \in SurfaceSlots : ~SurfaceOccupied(i)

GetWidthCacheEmpty == \A i \in GetWidthSlots : ~GetWidthOccupied(i)

\* ttf_toggle_hinting ran with TrueType fonts in use
ToggledWithTrueType == last.op = "toggle" /\ last.kind \in {"disposed", "kept"}

(***************************************************************************)
(* C1: after ttf_toggle_hinting with TrueType fonts in use every slot of   *)
(* the surface cache is empty, so that no surface rendered before the      *)
(* toggle can be returned by a later hit.                                  *)
(***************************************************************************)
C1_ToggleEmptiesSurfaceCache == ToggledWithTrueType => SurfaceCacheEmpty

(***************************************************************************)
(* C2: no two occupied slots of the same table hold an equal (font, text)  *)
(* pair.                                                                   *)
(***************************************************************************)
C2_NoDuplicateKeys ==
    /\ \A i, j \in SurfaceSlots :
           (i # j /\ SurfaceOccupied(i) /\ SurfaceOccupied(j))
               => ~IsMatch(_ttfSurfaceCache[i], _ttfSurfaceCache[j].font,
                           _ttfSurfaceCache[j].text.str)
    /\ \A i, j \in GetWidthSlots :
           (i # j /\ GetWidthOccupied(i) /\ GetWidthOccupied(j))
               => ~IsMatch(_ttfGetWidthCache[i], _ttfGetWidthCache[j].font,
                           _ttfGetWidthCache[j].text.str)

(***************************************************************************)
(* C3: when a call of ttf_surface_cache_get_or_add is a miss whose render  *)
(* succeeds, the call that follows it immediately with the same font and   *)
(* the same text is a hit, returns the same surface and does not render.   *)
(***************************************************************************)
SameKeyAgain(op) ==
    /\ last.op = op /\ last'.op = op
    /\ last'.font = last.font /\ last'.text = last.text

C4_DisposeAllResets ==
    /\ (last.op = "dispose" /\ last.kind = "disposed")
           => /\ SurfaceCacheEmpty /\ _ttfSurfaceCacheCount = 0
              /\ GetWidthCacheEmpty /\ _ttfGetWidthCacheCount = 0
    /\ (last.op = "toggle" /\ last.kind = "disposed")
           => SurfaceCacheEmpty /\ _ttfSurfaceCacheCount = 0

(***************************************************************************)
(* C5: at every value of gCurrentDrawCount, ticks below 64 included, a     *)
(* miss never evicts an occupied slot that was used within the last 64     *)
(* ticks while the probe path of the key (the table, from the home slot    *)
(* round) holds an empty slot or a slot last used more than 64 ticks ago.  *)
(***************************************************************************)
UsedWithin(lastUseTick) == gCurrentDrawCount - lastUseTick <= StaleTicks

SurfaceEvictsRecent ==
    /\ last'.op = "surface" /\ last'.kind \in {"miss", "fail"}
    /\ SurfaceOccupied(last'.index)
    /\ UsedWithin(_ttfSurfaceCache[last'.index].lastUseTick)
    /\ \E j \in SurfaceSlots :
           ~SurfaceOccupied(j) \/ ~UsedWithin(_ttfSurfaceCache[j].lastUseTick)

GetWidthEvictsRecent ==
    /\ last'.op = "getwidth" /\ last'.kind = "miss"
    /\ GetWidthOccupied(last'.index)
    /\ UsedWithin(_ttfGetWidthCache[last'.index].lastUseTick)
    /\ \E j \in GetWidthSlots :
           ~GetWidthOccupied(j) \/ ~UsedWithin(_ttfGetWidthCache[j].lastUseTick)

C5_RecentNeverEvicted == [][~SurfaceEvictsRecent /\ ~GetWidthEvictsRecent]_vars

(***************************************************************************)
(* C6: when the probe visits every slot and each is occupied, no match and *)
(* not stale, the slot that is evicted and refilled is the last slot       *)
(* probed, (home + N - 1) mod N, in both tables.                           *)
(***************************************************************************)
SurfaceExhausted == last.op = "surface" /\ last.exhausted

GetWidthExhausted == last.op = "getwidth" /\ last.exhausted

C6_EvictsLastProbed ==
    /\ SurfaceExhausted
           => last.index = (SurfaceHome(last.font, last.text) + TTF_SURFACE_CACHE_SIZE - 1)
                               % TTF_SURFACE_CACHE_SIZE
    /\ GetWidthExhausted
           => last.index = (GetWidthHome(last.font, last.text) + TTF_GETWIDTH_CACHE_SIZE - 1)
                               % TTF_GETWIDTH_CACHE_SIZE

(***************************************************************************)
(* C6, as amended: when the probe visits every slot and each is occupied,  *)
(* no match and not stale, the slot that is evicted and refilled is the    *)
(* home slot of the key (the first slot probed), in both tables; every     *)
(* other slot keeps its entry.                                             *)
(***************************************************************************)
C6_EvictsHome ==
    /\ SurfaceExhausted
           => /\ last.index = SurfaceHome(last.font, last.text)
              /\ last.kind = "miss" => IsMatch(_ttfSurfaceCache[last.index], last.font, last.text)
              /\ last.kind = "fail" => ~SurfaceOccupied(last.index)
              /\ \A j \in SurfaceSlots \ {last.index} :
                     SurfaceOccupied(j) /\ ~IsMatch(_ttfSurfaceCache[j], last.font, last.text)
    /\ GetWidthExhausted
           => /\ last.index = GetWidthHome(last.font, last.text)
              /\ IsMatch(_ttfGetWidthCache[last.index], last.font, last.text)
              /\ \A j \in GetWidthSlots \ {last.index} :
                     GetWidthOccupied(j) /\ ~IsMatch(_ttfGetWidthCache[j], last.font, last.text)

\* a miss of the surface cache whose probe ran through a full table
C6_Witness ==
    /\ SurfaceExhausted /\ last.kind = "miss"
    /\ SurfaceOccupied(last.index)

\* a miss of the get-width cache whose probe ran through a full table
C6_WitnessGetWidth == GetWidthExhausted /\ GetWidthOccupied(last.index)

(***************************************************************************)
(* C7: when ttf_render fails, ttf_surface_cache_get_or_add returns null,   *)
(* the slot the probe resolved to is empty afterwards, and the miss and    *)
(* live-entry counters are not incremented; a call for the same key whose  *)
(* render then succeeds stores the new surface in that slot and returns    *)
(* it.                                                                     *)
(***************************************************************************)
SurfaceStored ==
    /\ last'.result # 0
    /\ last'.result \in heap'.surfaces
    /\ _ttfSurfaceCache'[last'.index].surface = last'.result
    /\ IsMatch(_ttfSurfaceCache'[last'.index], last'.font, last'.text)

C7_RenderFailure ==
    [][/\ (last'.op = "surface" /\ last'.kind = "fail")
              => /\ last'.result = 0
                 /\ _ttfSurfaceCache'[last'.index].surface = 0
                 /\ _ttfSurfaceCacheMissCount' = _ttfSurfaceCacheMissCount
                 /\ _ttfSurfaceCacheCount' = _ttfSurfaceCacheCount
       /\ (SameKeyAgain("surface") /\ last.kind = "fail" /\ last'.kind # "fail")
              => /\ last'.kind = "miss"
                 /\ last'.index = last.index
                 /\ SurfaceStored
       /\ (last'.op = "surface" /\ last'.kind = "miss") => SurfaceStored]_vars

\* a successful insertion right after the render for the same key failed
C7_Witness ==
    /\ last.op = "surface" /\ last.kind = "miss" /\ last.after = "fail"
    /\ _ttfSurfaceCache[last.index].surface = last.result

(***************************************************************************)
(* C8: every surface and every text copy owned by a slot is released       *)
(* exactly once: nothing is freed twice, every allocated block is owned by *)
(* exactly one slot (so a hit returns a surface that has not been          *)
(* released), and after a dispose_all of a table none of its blocks is     *)
(* left allocated.                                                         *)
(***************************************************************************)
OwnedOnce(pool, slots, Pointer(_)) ==
    /\ \A i \in slots : Pointer(i) # 0 => Pointer(i) \in pool
    /\ \A p \in pool : Cardinality({i \in slots : Pointer(i) = p}) = 1

SurfacePointer(i) == _ttfSurfaceCache[i].surface

SurfaceTextPointer(i) == _ttfSurfaceCache[i].text.ptr

GetWidthTextPointer(i) == _ttfGetWidthCache[i].text.ptr

C8_ReleasedExactlyOnce ==
    /\ ~heap.doubleFree
    /\ OwnedOnce(heap.surfaces, SurfaceSlots, SurfacePointer)
    /\ OwnedOnce(heap.surfaceTexts, SurfaceSlots, SurfaceTextPointer)
    /\ OwnedOnce(heap.getWidthTexts, GetWidthSlots, GetWidthTextPointer)
    /\ (last.op = "surface" /\ last.kind = "hit") => last.result \in heap.surfaces
    /\ (last.op \in {"toggle", "dispose"} /\ last.kind = "disposed")
           => heap.surfaces = {} /\ heap.surfaceTexts = {}
    /\ (last.op = "dispose" /\ last.kind = "disposed") => heap.getWidthTexts = {}

\* ttf_dispose has just released the blocks of both tables
C8_Witness ==
    /\ last.op = "dispose" /\ last.kind = "disposed" /\ last.result >= 3
    /\ _ttfSurfaceCacheMissCount > 0 /\ _ttfGetWidthCacheMissCount > 0

\* a miss has just evicted an entry and released its blocks
C8_WitnessEviction ==
    /\ last.op = "surface" /\ last.kind = "miss"
    /\ _ttfSurfaceCacheMissCount > Cardinality(heap.surfaces)
    /\ _ttfSurfaceCacheCount = _ttfSurfaceCacheMissCount

(***************************************************************************)
(* C9: a call of ttf_surface_cache_get_or_add calls ttf_render not at all  *)
(* when it is a hit and once when it is a miss; a call of ttf_getwidth_    *)
(* cache_get_or_add calls ttf_get_size not at all on a hit and once on a   *)
(* miss.  A hit is a call that finds its key in the table and counts in    *)
(* the hit counter; a miss is every other call.                            *)
(***************************************************************************)
C9_OneCallPerMiss ==
    [][/\ last'.op = "surface"
              => IF \E i \in SurfaceSlots :
                        SurfaceOccupied(i) /\ i = last'.index
                            /\ IsMatch(_ttfSurfaceCache[i], last'.font, last'.text)
                 THEN /\ last'.kind = "hit" /\ last'.calls = 0
                      /\ _ttfSurfaceCacheHitCount' = _ttfSurfaceCacheHitCount + 1
                      /\ heap' = heap
                 ELSE /\ last'.kind \in {"miss", "fail"} /\ last'.calls = 1
                      /\ _ttfSurfaceCacheHitCount' = _ttfSurfaceCacheHitCount
       /\ last'.op = "getwidth"
              => IF \E i \in GetWidthSlots :
                        GetWidthOccupied(i) /\ i = last'.index
                            /\ IsMatch(_ttfGetWidthCache[i], last'.font, last'.text)
                 THEN /\ last'.kind = "hit" /\ last'.calls = 0
                      /\ _ttfGetWidthCacheHitCount' = _ttfGetWidthCacheHitCount + 1
                      /\ heap' = heap
                 ELSE /\ last'.kind = "miss" /\ last'.calls = 1
                      /\ _ttfGetWidthCacheHitCount' = _ttfGetWidthCacheHitCount]_vars

\* a hit of the get-width cache right after the miss that measured the key
C9_Witness ==
    /\ last.op = "getwidth" /\ last.kind = "hit" /\ last.after = "miss"
    /\ _ttfGetWidthCacheHitCount > 0 /\ _ttfGetWidthCacheMissCount > 0

(***************************************************************************)
(* C10: a hit needs the same font handle and byte-equal text: the value a  *)
(* hit returns was produced by the ttf_render / ttf_get_size call made for *)
(* exactly that font and that text, and a query with the text of an entry  *)
(* under another font handle does not hit that entry.                      *)
(***************************************************************************)
C10_HitNeedsFontAndText ==
    /\ (last.op = "surface" /\ last.kind = "hit")
           => /\ origin.surface[last.index] = Key(last.font, last.text)
              /\ IsMatch(_ttfSurfaceCache[last.index], last.font, last.text)
              /\ _ttfSurfaceCache[last.index].surface = last.result
    /\ (last.op = "getwidth" /\ last.kind = "hit")
           => /\ origin.getWidth[last.index] = Key(last.font, last.text)
              /\ IsMatch(_ttfGetWidthCache[last.index], last.font, last.text)
              /\ _ttfGetWidthCache[last.index].width = last.result
    /\ \A i \in SurfaceSlots :
           SurfaceOccupied(i)
               => origin.surface[i] = Key(_ttfSurfaceCache[i].font, _ttfSurfaceCache[i].text.str)
    /\ \A i \in GetWidthSlots :
           GetWidthOccupied(i)
               => origin.getWidth[i] = Key(_ttfGetWidthCache[i].font,
                                           _ttfGetWidthCache[i].text.str)

\* a miss for a text that the table holds under the other font handle
C10_Witness ==
    /\ last.op = "surface" /\ last.kind = "miss"
    /\ \E j \in SurfaceSlots \ {last.index} :
           /\ SurfaceOccupied(j)
           /\ _ttfSurfaceCache[j].text.str = last.text
           /\ _ttfSurfaceCache[j].font # last.font
           /\ _ttfSurfaceCache[j].lastUseTick = gCurrentDrawCount

(***************************************************************************)
(* C11: ttf_toggle_hinting leaves the get-width cache as it is: every slot *)
(* (width, font, text, lastUseTick), the counters and the text copies are  *)
(* the same after the call as before, so a lookup of any key resolves      *)
(* after the toggle as it did before it, and a key that was a hit stays a  *)
(* hit.  The toggle ttf_initialise runs is included.                       *)
(***************************************************************************)
GetWidthLookup(cache, size, text) ==
    GetWidthProbe(cache, TTF_OpenFont(size), text, gCurrentDrawCount,
                  GetWidthHome(TTF_OpenFont(size), text), 0)

ToggleRan ==
    \/ last'.op = "toggle"
    \/ last'.op = "initialise" /\ last'.kind = "true"

C11_ToggleKeepsGetWidthCache ==
    [][ToggleRan
          => /\ _ttfGetWidthCache' = _ttfGetWidthCache
             /\ _ttfGetWidthCacheCount' = _ttfGetWidthCacheCount
             /\ _ttfGetWidthCacheHitCount' = _ttfGetWidthCacheHitCount
             /\ _ttfGetWidthCacheMissCount' = _ttfGetWidthCacheMissCount
             /\ heap'.getWidthTexts = heap.getWidthTexts
             /\ \A size \in DrawnSizes, text \in Texts :
                    GetWidthLookup(_ttfGetWidthCache', size, text)
                        = GetWidthLookup(_ttfGetWidthCache, size, text)]_vars

\* the toggle has just disposed the surface cache while the get-width cache
\* holds a key, which a lookup still finds
C11_Witness ==
    /\ last.op = "toggle" /\ last.kind = "disposed" /\ last.result > 0
    /\ \E size \in DrawnSizes, text \in Texts :
           LET probe == GetWidthLookup(_ttfGetWidthCache, size, text)
           IN  probe.hit /\ GetWidthOccupied(probe.index)

(***************************************************************************)
(* C12: dispose_all twice in a row on a table leaves every slot empty      *)
(* after the first call and after the second, and the second call releases *)
(* nothing.  Checked on the calls the program makes in a row (a toggle or  *)
(* ttf_dispose right after a toggle that disposed) and, for both tables,   *)
(* on two calls applied to every content the program brings the tables to. *)
(***************************************************************************)
SurfaceDisposedBy(call) == call.op \in DisposalOps /\ call.kind = "disposed"

AllEmptySurface(cache) == \A i \in DOMAIN cache : cache[i].surface = 0 /\ cache[i].text.ptr = 0

AllEmptyGetWidth(cache) == \A i \in DOMAIN cache : cache[i].text.ptr = 0

\* a step that writes to a table or to its pools of the allocator
SurfaceTableChanges ==
    \/ _ttfSurfaceCache' # _ttfSurfaceCache
    \/ heap'.surfaces # heap.surfaces
    \/ heap'.surfaceTexts # heap.surfaceTexts
    \/ heap'.doubleFree # heap.doubleFree

GetWidthTableChanges ==
    \/ _ttfGetWidthCache' # _ttfGetWidthCache
    \/ heap'.getWidthTexts # heap.getWidthTexts
    \/ heap'.doubleFree # heap.doubleFree

C12_DisposeAllTwice ==
    [][/\ (SurfaceDisposedBy(last) /\ SurfaceDisposedBy(last'))
              => /\ AllEmptySurface(_ttfSurfaceCache)
                 /\ AllEmptySurface(_ttfSurfaceCache')
                 /\ heap'.surfaces = heap.surfaces
                 /\ heap'.surfaceTexts = heap.surfaceTexts
                 /\ ~heap'.doubleFree
       /\ SurfaceTableChanges
              => \E s1 \in {ttf_surface_cache_dispose_all(_ttfSurfaceCache',
                                                          _ttfSurfaceCacheCount', heap')} :
                 \E s2 \in {ttf_surface_cache_dispose_all(s1.cache, s1.count, s1.heap)} :
                     /\ AllEmptySurface(s1.cache) /\ AllEmptySurface(s2.cache)
                     /\ s2.heap = s1.heap /\ ~s2.heap.doubleFree
                     /\ s1.heap.surfaces = {} /\ s1.heap.surfaceTexts = {}
       /\ GetWidthTableChanges
              => \E w1 \in {ttf_getwidth_cache_dispose_all(_ttfGetWidthCache',
                                                           _ttfGetWidthCacheCount', heap')} :
                 \E w2 \in {ttf_getwidth_cache_dispose_all(w1.cache, w1.count, w1.heap)} :
                     /\ AllEmptyGetWidth(w1.cache) /\ AllEmptyGetWidth(w2.cache)
                     /\ w2.heap = w1.heap /\ ~w2.heap.doubleFree
                     /\ w1.heap.getWidthTexts = {}]_vars

\* the surface cache, which had entries stored, has been disposed twice in a
\* row
C12_Witness ==
    /\ SurfaceDisposedBy(last) /\ last.after = "disposed"
    /\ _ttfSurfaceCacheMissCount > 0
    /\ SurfaceCacheEmpty

(***************************************************************************)
(* C13: when ttf_initialise fails it returns false and leaves the          *)
(* subsystem uninitialised: _ttfInitialised is false, the font engine is   *)
(* not left started and no size class keeps an open font.                  *)
(***************************************************************************)
InitialiseFailed == last.op = "initialise" /\ last.kind = "false"

C13_FailedInitialiseLeavesNothing ==
    InitialiseFailed
        => /\ ~_ttfInitialised
           /\ engineRefs = 0
           /\ \A i \in FontSizes : fontSet[i] = 0

(***************************************************************************)
(* C14: the lastUseTick of a slot does not decrease while the slot stays   *)
(* occupied, it equals gCurrentDrawCount right after every hit and every   *)
(* insertion, and no occupied slot has a lastUseTick greater than          *)
(* gCurrentDrawCount.  gCurrentDrawCount is followed from 0 up to          *)
(* MaxDrawCount, below the point where the 32-bit counter wraps round.     *)
(***************************************************************************)
C14_LastUseTick ==
    [][/\ (last'.op = "surface" /\ last'.kind \in {"hit", "miss"})
              => _ttfSurfaceCache'[last'.index].lastUseTick = gCurrentDrawCount'
       /\ (last'.op = "getwidth" /\ last'.kind \in {"hit", "miss"})
              => _ttfGetWidthCache'[last'.index].lastUseTick = gCurrentDrawCount'
       /\ \A i \in SurfaceSlots :
              /\ (SurfaceOccupied(i) /\ _ttfSurfaceCache'[i].surface # 0)
                     => _ttfSurfaceCache'[i].lastUseTick >= _ttfSurfaceCache[i].lastUseTick
              /\ _ttfSurfaceCache'[i].surface # 0
                     => _ttfSurfaceCache'[i].lastUseTick <= gCurrentDrawCount'
       /\ \A i \in GetWidthSlots :
              /\ (GetWidthOccupied(i) /\ _ttfGetWidthCache'[i].text.ptr # 0)
                     => _ttfGetWidthCache'[i].lastUseTick >= _ttfGetWidthCache[i].lastUseTick
              /\ _ttfGetWidthCache'[i].text.ptr # 0
                     => _ttfGetWidthCache'[i].lastUseTick <= gCurrentDrawCount']_vars

\* a hit in a later frame has brought the entry to the current tick, while
\* another entry still has the tick of an earlier frame
C14_Witness ==
    /\ last.op = "surface" /\ last.kind = "hit" /\ gCurrentDrawCount > 0
    /\ _ttfSurfaceCache[last.index].lastUseTick = gCurrentDrawCount
    /\ \E j \in SurfaceSlots :
           SurfaceOccupied(j) /\ _ttfSurfaceCache[j].lastUseTick < gCurrentDrawCount

(***************************************************************************)
(* C15: ttf_surface_cache_hash is a function of the font handle and the    *)
(* whole text in 32-bit arithmetic (a second call with the same arguments  *)
(* returns the same value), the hash of the empty text is the font seed    *)
(* ((font * 23) XOR 0xAAAAAAAA) mod 2^32, and two texts of the same length *)
(* that differ in exactly one byte have different hashes under every font. *)
(***************************************************************************)
\* bit k of the 32-bit value x
Bit(x, k) == IF k < 16 THEN (x[2] \div (2 ^ k)) % 2 ELSE (x[1] \div (2 ^ (k - 16))) % 2

\* bit k of 0xAAAAAAAA: the odd bits are set
SeedMaskBit(k) == k % 2

DifferInOneByte(t, u) ==
    /\ Len(t) = Len(u)
    /\ Cardinality({i \in 1 .. Len(t) : t[i] # u[i]}) = 1

C15_Hash ==
    last.op = "hash"
        => /\ last.result \in (0 .. (Half - 1)) \X (0 .. (Half - 1))
           /\ last.result = ttf_surface_cache_hash(last.font, last.text)
           /\ last.text = <<>>
                  => \A k \in 0 .. 31 :
                         Bit(last.result, k)
                             = (Bit(ToU32(last.font * 23), k) + SeedMaskBit(k)) % 2
           /\ \A u \in HashTexts :
                  DifferInOneByte(last.text, u)
                      => ttf_surface_cache_hash(last.font, u) # last.result

\* the hash of a text of two or more bytes, which has been compared with
\* the hash of a text that differs from it in the first byte only
C15_Witness ==
    /\ last.op = "hash" /\ Len(last.text) >= 2
    /\ \E u \in HashTexts :
           /\ DifferInOneByte(last.text, u) /\ u[1] # last.text[1]
           /\ ttf_surface_cache_hash(last.font, u) # last.result

(***************************************************************************)
(* C16: ttf_dispose on the initialised subsystem disposes every slot of    *)
(* both caches before it closes a font, closes the fonts before it shuts   *)
(* the engine down, and ends with both tables empty and _ttfInitialised    *)
(* false; no occupied slot of a cache ever holds a font handle that is not *)
(* an open font of the font set.                                           *)
(***************************************************************************)
OpenFonts(fonts) == {fonts[i] : i \in FontSizes} \ {0}

SlotsHoldOpenFonts(surfaceCache, getWidthCache, fonts) ==
    /\ \A i \in DOMAIN surfaceCache :
           surfaceCache[i].surface # 0 => surfaceCache[i].font \in OpenFonts(fonts)
    /\ \A i \in DOMAIN getWidthCache :
           getWidthCache[i].text.ptr # 0 => getWidthCache[i].font \in OpenFonts(fonts)

C16_DisposeOrder ==
    [][/\ last'.op = "dispose"
              => LET steps == DisposeSteps(_ttfSurfaceCache, _ttfSurfaceCacheCount,
                                           _ttfGetWidthCache, _ttfGetWidthCacheCount,
                                           fontSet, engineRefs, heap)
                     end   == steps[Len(steps)]
                 IN  /\ \A k \in 1 .. Len(steps) :
                            /\ steps[k].fonts # fontSet
                                   => /\ AllEmptySurface(steps[k].surface)
                                      /\ AllEmptyGetWidth(steps[k].getWidth)
                            /\ steps[k].refs # engineRefs => steps[k].fonts = ClosedFonts
                            /\ SlotsHoldOpenFonts(steps[k].surface, steps[k].getWidth,
                                                  steps[k].fonts)
                     /\ _ttfSurfaceCache' = end.surface
                     /\ _ttfGetWidthCache' = end.getWidth
                     /\ fontSet' = end.fonts /\ fontSet' = ClosedFonts
                     /\ engineRefs' = end.refs /\ engineRefs' = engineRefs - 1
                     /\ heap' = end.heap
                     /\ AllEmptySurface(_ttfSurfaceCache')
                     /\ AllEmptyGetWidth(_ttfGetWidthCache')
                     /\ ~_ttfInitialised'
       /\ SlotsHoldOpenFonts(_ttfSurfaceCache', _ttfGetWidthCache', fontSet')]_vars

\* ttf_dispose has just emptied a cache that held entries and closed the
\* fonts
C16_Witness ==
    /\ last.op = "dispose" /\ last.kind = "disposed" /\ last.result > 0
    /\ ~_ttfInitialised /\ fontSet = ClosedFonts
    /\ SurfaceCacheEmpty /\ GetWidthCacheEmpty

(***************************************************************************)
(* C17: every call of ttf_surface_cache_get_or_add and of ttf_getwidth_    *)
(* cache_get_or_add ends, from every state of its table, a table whose     *)
(* slots are all occupied, not matching and fresh included: its probe loop *)
(* reads at least one and at most N slots, N when it finds no slot to      *)
(* stop at, and the call makes at most one call of ttf_render /            *)
(* ttf_get_size.                                                           *)
(***************************************************************************)
SurfaceLookup(cache, font, text) ==
    SurfaceProbe(cache, font, text, gCurrentDrawCount, SurfaceHome(font, text), 0)

ProbeBounded(probe, size, call) ==
    /\ probe.examined >= 1 /\ probe.examined <= size
    /\ probe.exhausted => probe.examined = size
    /\ probe.index \in 0 .. (size - 1)
    /\ call.index = probe.index
    /\ call.exhausted = probe.exhausted
    /\ call.calls \in {0, 1}

C17_ProbeBounded ==
    [][/\ last'.op = "surface"
              => \E probe \in {SurfaceLookup(_ttfSurfaceCache, last'.font, last'.text)} :
                     ProbeBounded(probe, TTF_SURFACE_CACHE_SIZE, last')
       /\ last'.op = "getwidth"
              => \E probe \in {GetWidthProbe(_ttfGetWidthCache, last'.font, last'.text,
                                             gCurrentDrawCount,
                                             GetWidthHome(last'.font, last'.text), 0)} :
                     ProbeBounded(probe, TTF_GETWIDTH_CACHE_SIZE, last')]_vars

\* a call has ended whose probe read every slot of a get-width table full
\* of fresh entries of other keys
C17_Witness ==
    /\ GetWidthExhausted /\ last.calls = 1
    /\ \A j \in GetWidthSlots :
           GetWidthOccupied(j) /\ ~IsStale(_ttfGetWidthCache[j].lastUseTick, gCurrentDrawCount)

(***************************************************************************)
(* C18: the live-entry counter of each table equals the number of occupied *)
(* slots of the table; so it is never negative, and it is not zero while a *)
(* slot is occupied.                                                       *)
(***************************************************************************)
C18_CountIsOccupiedSlots ==
    /\ _ttfSurfaceCacheCount = Cardinality({i \in SurfaceSlots : SurfaceOccupied(i)})
    /\ _ttfGetWidthCacheCount = Cardinality({i \in GetWidthSlots : GetWidthOccupied(i)})

(***************************************************************************)
(* C19: a call of ttf_surface_cache_get_or_add or ttf_getwidth_cache_get_  *)
(* or_add changes at most one slot of its own table and nothing of the     *)
(* other table: a hit changes the lastUseTick of the slot it hits and the  *)
(* hit counter, a miss changes the slot the probe resolved to and the miss *)
(* and live-entry counters, and a failed render changes only that slot,    *)
(* which it empties.                                                       *)
(***************************************************************************)
OtherSlotsKept(cache, cacheAfter, index) ==
    \A j \in DOMAIN cache : j # index => cacheAfter[j] = cache[j]

C19_GetOrAddFrame ==
    [][/\ last'.op = "surface"
              => /\ UNCHANGED <<getWidthVars, lifeVars, gCurrentDrawCount>>
                 /\ heap'.getWidthTexts = heap.getWidthTexts
                 /\ origin'.getWidth = origin.getWidth
                 /\ OtherSlotsKept(_ttfSurfaceCache, _ttfSurfaceCache', last'.index)
                 /\ last'.kind = "hit"
                        => /\ _ttfSurfaceCache'[last'.index]
                                  = [_ttfSurfaceCache[last'.index]
                                        EXCEPT !.lastUseTick = gCurrentDrawCount]
                           /\ _ttfSurfaceCacheHitCount' = _ttfSurfaceCacheHitCount + 1
                           /\ UNCHANGED <<_ttfSurfaceCacheMissCount, _ttfSurfaceCacheCount,
                                          heap>>
                 /\ last'.kind = "miss"
                        => /\ _ttfSurfaceCacheMissCount' = _ttfSurfaceCacheMissCount + 1
                           /\ _ttfSurfaceCacheCount' = _ttfSurfaceCacheCount + 1
                           /\ UNCHANGED _ttfSurfaceCacheHitCount
                 /\ last'.kind = "fail"
                        => /\ _ttfSurfaceCache'[last'.index].surface = 0
                           /\ UNCHANGED <<_ttfSurfaceCacheHitCount, _ttfSurfaceCacheMissCount,
                                          _ttfSurfaceCacheCount>>
       /\ last'.op = "getwidth"
              => /\ UNCHANGED <<surfaceVars, lifeVars, gCurrentDrawCount>>
                 /\ heap'.surfaces = heap.surfaces
                 /\ heap'.surfaceTexts = heap.surfaceTexts
                 /\ origin'.surface = origin.surface
                 /\ OtherSlotsKept(_ttfGetWidthCache, _ttfGetWidthCache', last'.index)
                 /\ last'.kind = "hit"
                        => /\ _ttfGetWidthCache'[last'.index]
                                  = [_ttfGetWidthCache[last'.index]
                                        EXCEPT !.lastUseTick = gCurrentDrawCount]
                           /\ _ttfGetWidthCacheHitCount' = _ttfGetWidthCacheHitCount + 1
                           /\ UNCHANGED <<_ttfGetWidthCacheMissCount, _ttfGetWidthCacheCount,
                                          heap>>
                 /\ last'.kind = "miss"
                        => /\ _ttfGetWidthCacheMissCount' = _ttfGetWidthCacheMissCount + 1
                           /\ _ttfGetWidthCacheCount' = _ttfGetWidthCacheCount + 1
                           /\ UNCHANGED _ttfGetWidthCacheHitCount]_vars

\* a miss of the surface cache while the get-width cache holds an entry
C19_Witness ==
    /\ last.op = "surface" /\ last.kind = "miss"
    /\ \E j \in GetWidthSlots : GetWidthOccupied(j)

\* a hit in a later frame in a table that holds a second entry, which keeps
\* its tick
C19_WitnessOwnTable ==
    /\ last.op = "getwidth" /\ last.kind = "hit" /\ last.after # "miss"
    /\ \E j \in GetWidthSlots \ {last.index} :
           GetWidthOccupied(j) /\ _ttfGetWidthCache[j].lastUseTick < gCurrentDrawCount

(***************************************************************************)
(* C20: in every reachable state each slot is fully empty or fully         *)
(* populated.  In the surface table surface is null exactly when text is   *)
(* null and exactly when font is null; in the get-width table text is null *)
(* exactly when font is null, and a slot without text has width 0.         *)
(***************************************************************************)
SurfaceSlotWhole(entry) ==
    /\ entry.surface = 0 <=> entry.text.ptr = 0
    /\ entry.surface = 0 <=> entry.font = 0

GetWidthSlotWhole(entry) ==
    /\ entry.text.ptr = 0 <=> entry.font = 0
    /\ entry.text.ptr = 0 => entry.width = 0

C20_SlotsWhole ==
    /\ \A i \in SurfaceSlots : SurfaceSlotWhole(_ttfSurfaceCache[i])
    /\ \A j \in GetWidthSlots : GetWidthSlotWhole(_ttfGetWidthCache[j])

\* a surface slot that was populated and then emptied (its lastUseTick is
\* left behind), next to a get-width slot that holds a nonzero width
C20_Witness ==
    /\ \E i \in SurfaceSlots :
           ~SurfaceOccupied(i) /\ _ttfSurfaceCache[i].lastUseTick # 0
    /\ \E j \in GetWidthSlots :
           GetWidthOccupied(j) /\ _ttfGetWidthCache[j].width # 0

\* a get-width slot that was populated and then emptied
C20_WitnessGetWidth ==
    \E j \in GetWidthSlots :
        ~GetWidthOccupied(j) /\ _ttfGetWidthCache[j].lastUseTick # 0

====
